---- MODULE Spec2Model ----
(***************************************************************************)
(* A model of webrtc/cross-browser-helper.js: the Future class, the        *)
(* Signaling message router with its two transports (LoopbackSignaling,    *)
(* WebSocketSignaling), the process-wide rendezvous gate and the           *)
(* cross_browser_test wrapper.                                             *)
(*                                                                         *)
(* JavaScript runs one task at a time, so a synchronous function is one    *)
(* step, except where it calls out to a callback that can call back in     *)
(* (a candidate or data handler): there the call stack is modelled.        *)
(***************************************************************************)
EXTENDS Integers, Sequences, FiniteSets, TLC

\* ------------------------------------------------------------- bounds
\* Envelopes received by the router in one behaviour.
MaxMsgs == 3
\* Depth of the modelled call stack (replays and handler bodies in progress).
MaxDepth == 2
\* Calls of receiveRemoteDescription, and of _done, in one behaviour.
MaxCalls == 2
\* Messages handed to _sendMessage in one behaviour.
MaxSends == 3
\* Local candidates a peer connection finds in one behaviour.
MaxCandidates == 2
\* Data messages a test body sends before it ends, in cross-browser mode.
MaxData == 1
\* Tests a page declares with cross_browser_test.
NumTests == 2
\* Messages the relay sends to the rendezvous socket.
MaxRelayed == 2
\* Calls of resolve and reject on one Future, and the tasks awaiting it.
MaxSettleCalls == 3
NumAwaiters == 2

\* ------------------------------------------------------------- state
\* The state of each part; the comment at each part says what its variables hold.
VARIABLES sig, stack, received, batchAt, asserts, sent, descCalls, doneCalls
VARIABLES fut, thenable, settleLog, awaiter
VARIABLES wsig, wsCalls, wsOpenAt
VARIABLES lsig, lrole, loopSent
VARIABLES side, relay
VARIABLES page, inbox, tests
VARIABLES asig, prior, lastCall

routerVars == <<sig, stack, received, batchAt, asserts, descCalls>>
doneVars == <<sent, doneCalls>>
futureVars == <<fut, thenable, settleLog, awaiter>>
socketVars == <<wsig, wsCalls, wsOpenAt>>
loopbackVars == <<lsig, lrole, loopSent>>
crossVars == <<side, relay>>
readyVars == <<page, inbox, tests>>
registerVars == <<asig, prior, lastCall>>
vars == <<routerVars, doneVars, futureVars, socketVars, loopbackVars, crossVars, readyVars, registerVars>>

\* What a step of one part leaves alone: the other parts.
outsideRouter == <<doneVars, futureVars, socketVars, loopbackVars, crossVars, readyVars, registerVars>>
outsideDone == <<stack, asserts, descCalls, futureVars, socketVars, loopbackVars, crossVars, readyVars, registerVars>>
outsideFuture == <<routerVars, doneVars, socketVars, loopbackVars, crossVars, readyVars, registerVars>>
outsideSocket == <<routerVars, doneVars, futureVars, loopbackVars, crossVars, readyVars, registerVars>>
outsideCross == <<routerVars, doneVars, futureVars, socketVars, loopbackVars, readyVars, registerVars>>
outsideReady == <<routerVars, doneVars, futureVars, socketVars, loopbackVars, crossVars, registerVars>>
outsideRegister == <<routerVars, doneVars, futureVars, socketVars, loopbackVars, crossVars, readyVars>>
outsideLoopback == <<routerVars, doneVars, futureVars, socketVars, crossVars, readyVars, registerVars>>

\* ------------------------------------------------------------- values
\* JavaScript values are tagged records, so that any two can be compared.
\* A field that an object does not have ('value' in message is false).
Absent == [tag |-> "absent"]
\* JavaScript's null.
JsNull == [tag |-> "null"]
\* A string, as its pieces in order.
Str(pieces) == [tag |-> "string", s |-> pieces]
\* An object known by the place it was made at (a description, a candidate, ...).
Obj(n) == [tag |-> "object", n |-> n]

\* The type of an object that has no 'type'.
NoType == "<absent>"
Kinds == {"description", "candidate", "data", "done"}
\* What a received object may carry as its type: a kind, another string, nothing.
ReceivedTypes == Kinds \cup {"bogus", NoType}

\* The payload the n-th received envelope carries (each its own object).
PayloadOf(n) == Obj(n)
\* The value of a received object: its payload, or none at all. An object that
\* is refused for its type is refused whatever its value.
ReceivedValues(t, n) == IF t \in Kinds THEN {Absent, PayloadOf(n)} ELSE {PayloadOf(n)}

\* The kinds that wait in the inbound queue when there is no consumer.
QueuedKinds == {"description", "candidate", "data"}

\* testharness.js status values a test reports.
PASS == 0
FAIL == 1
TIMEOUT == 2

\* A status report, as the overridden test.done builds it.
Report(status, message) == [tag |-> "report", status |-> status, message |-> message]

\* The results passed to _done in the router's specification.
DoneResults == {Report(PASS, JsNull), Report(FAIL, Str(<<"X">>))}

\* ------------------------------------------------------------- Future
\* A Future is a Promise whose resolving functions are kept: "called" is the
\* promise's already-resolved flag, shared by the two functions.
NewFuture == [state |-> "pending", value |-> JsNull, called |-> FALSE]

\* Values that have a callable then: resolving with one follows it.
Thenables == {[tag |-> "thenable"]}

FutureResolveOverwrites(f, v) ==
    [state |-> "fulfilled", value |-> v, called |-> TRUE]

FutureResolve(f, v) ==
    IF f.called THEN f
    ELSE IF v \in Thenables
         THEN [state |-> "pending", value |-> v, called |-> TRUE]
         ELSE [state |-> "fulfilled", value |-> v, called |-> TRUE]

FutureReject(f, e) ==
    IF f.called THEN f
    ELSE [state |-> "rejected", value |-> e, called |-> TRUE]

\* The thenable a locked-in future follows settles: the future takes its outcome.
FutureFollow(f, outcome) ==
    IF f.called /\ f.state = "pending" /\ f.value \in Thenables
    THEN [state |-> outcome.state, value |-> outcome.value, called |-> TRUE]
    ELSE f

\* ------------------------------------------------------------- Signaling
\* The fields the constructor sets. futures is the heap of Future objects the
\* instance made (0 is null); delivered is the record of what each consumer was
\* handed, in order.
NewSignaling ==
    [pendingInboundMessages |-> <<>>,
     remoteDescriptionFuture |-> 0,
     remoteCandidateHandler |-> 0,
     remoteDataHandler |-> 0,
     doneSent |-> FALSE,
     remoteDoneFuture |-> 1,
     futures |-> <<NewFuture>>,
     delivered |-> <<>>]

Deliver(s, m, consumer) ==
    [s EXCEPT !.delivered = Append(@, [id |-> m.id, type |-> m.type, to |-> consumer])]

HandleRemoteDescriptionDrops(s, m) ==
    IF s.remoteDescriptionFuture = 0
    THEN s
    ELSE Deliver([s EXCEPT !.remoteDescriptionFuture = 0,
                           !.futures[s.remoteDescriptionFuture] = FutureResolve(@, m.value)],
                 m, "description")

HandleRemoteDescription(s, m) ==
    IF s.remoteDescriptionFuture = 0
    THEN [s EXCEPT !.pendingInboundMessages = Append(@, m)]
    ELSE Deliver([s EXCEPT !.remoteDescriptionFuture = 0,
                           !.futures[s.remoteDescriptionFuture] = FutureResolve(@, m.value)],
                 m, "description")

HandleRemoteCandidatePrepends(s, m) ==
    IF s.remoteCandidateHandler = 0
    THEN [s EXCEPT !.pendingInboundMessages = <<m>> \o @]
    ELSE Deliver(s, m, "candidate")

HandleRemoteCandidate(s, m) ==
    IF s.remoteCandidateHandler = 0
    THEN [s EXCEPT !.pendingInboundMessages = Append(@, m)]
    ELSE Deliver(s, m, "candidate")

HandleData(s, m) ==
    IF s.remoteDataHandler = 0
    THEN [s EXCEPT !.pendingInboundMessages = Append(@, m)]
    ELSE Deliver(s, m, "data")

HandleDoneQueues(s, m) ==
    [s EXCEPT !.pendingInboundMessages = Append(@, m)]

HandleDone(s, m) ==
    Deliver([s EXCEPT !.futures[s.remoteDoneFuture] = FutureResolve(@, m.value)],
            m, "done")

\* _receiveMessage ends in assert_unreached, which throws.
ReceiveThrows(m) == m.type \notin Kinds

\* message.value = null when the object has no value.
WithValueKeepsAbsent(m) == m

WithValue(m) == IF m.value = Absent THEN [m EXCEPT !.value = JsNull] ELSE m

ReceiveMessage(s, m) ==
    IF m.type = NoType THEN s
    ELSE LET msg == WithValue(m) IN
         CASE msg.type = "description" -> HandleRemoteDescription(s, msg)
           [] msg.type = "candidate" -> HandleRemoteCandidate(s, msg)
           [] msg.type = "data" -> HandleData(s, msg)
           [] msg.type = "done" -> HandleDone(s, msg)
           [] OTHER -> s

\* _receiveMessage(m) calls a handler the test supplied.
CallsHandler(s, m) ==
    \/ m.type = "candidate" /\ s.remoteCandidateHandler # 0
    \/ m.type = "data" /\ s.remoteDataHandler # 0

\* The first half of receiveRemoteDescription: make the future if there is none.
EnsureRemoteDescriptionFuture(s) ==
    IF s.remoteDescriptionFuture = 0
    THEN [s EXCEPT !.futures = Append(@, NewFuture),
                   !.remoteDescriptionFuture = Len(s.futures) + 1]
    ELSE s

\* The setters' assignments.
SetRemoteCandidateHandler(s, h) == [s EXCEPT !.remoteCandidateHandler = h]
SetRemoteDataHandler(s, h) == [s EXCEPT !.remoteDataHandler = h]

\* _processPendingInboundMessages, first two lines: the queue is captured and
\* replaced by an empty one.
CapturedMessages(s) == s.pendingInboundMessages
WithQueueKept(s) == s

WithEmptyQueue(s) == [s EXCEPT !.pendingInboundMessages = <<>>]

\* _processPendingInboundMessages when no handler calls back in: the loop.
RECURSIVE ReceiveAll(_, _)
ReceiveAll(s, msgs) ==
    IF msgs = <<>> THEN s
    ELSE ReceiveAll(ReceiveMessage(s, Head(msgs)), Tail(msgs))

ProcessPendingInboundMessages(s) == ReceiveAll(WithEmptyQueue(s), CapturedMessages(s))

\* receiveRemoteDescription as one step; its return value is read after the replay.
ReceiveRemoteDescription(s) == ProcessPendingInboundMessages(EnsureRemoteDescriptionFuture(s))
ReceiveRemoteDescriptionResult(s) == ReceiveRemoteDescription(s).remoteDescriptionFuture

\* What `await x` gives for the value x a call returned: null for null, the
\* value of a fulfilled future, nothing yet for a pending one.
StillWaiting == [tag |-> "waiting"]
Awaited(s, ret) ==
    IF ret = 0 THEN JsNull
    ELSE IF s.futures[ret].state = "fulfilled" THEN s.futures[ret].value
    ELSE StillWaiting

\* _done: what it hands to _sendMessage, the state it leaves, what it returns.
DoneMessagesUnguarded(s, result) == <<[type |-> "done", value |-> result]>>

DoneMessages(s, result) ==
    IF ~s.doneSent THEN <<[type |-> "done", value |-> result]>> ELSE <<>>

DoneState(s) == [s EXCEPT !.doneSent = TRUE]
DoneResult(s) == s.remoteDoneFuture

\* ------------------------------------------------------------- the router
\* One Signaling instance, driven by its transport (Receive) and by the test
\* (receiveRemoteDescription, the two setters).
\*   sig        the instance
\*   stack      the calls in progress: a replay with the rest of its captured
\*              batch, or the body of a handler that a delivery called
\*   received   every object passed to _receiveMessage from outside, in order
\*   batchAt    for each of them, the envelopes that captured batches held then
\*   asserts    the assert_unreached failures raised
\*   descCalls  what each completed receiveRemoteDescription call returned
HandlerFrame == [f |-> "handler", rest |-> <<>>, op |-> "handler"]
ReplayFrame(msgs, op) == [f |-> "replay", rest |-> msgs, op |-> op]

Top == stack[Len(stack)]
Quiescent == stack = <<>>
\* A call can be made by a task of its own or from inside a handler's body.
Callable == IF stack = <<>> THEN TRUE ELSE Top.f = "handler"

\* The envelopes held by the replays in progress.
InBatches == UNION {{stack[i].rest[j].id : j \in 1..Len(stack[i].rest)} : i \in 1..Len(stack)}

RouterInit ==
    /\ sig = NewSignaling
    /\ stack = <<>>
    /\ received = <<>>
    /\ batchAt = <<>>
    /\ asserts = 0
    /\ descCalls = <<>>

\* The innermost call is a replay whose loop has no message left.
LoopEnded(stk) ==
    IF stk = <<>> THEN FALSE
    ELSE stk[Len(stk)].f = "replay" /\ stk[Len(stk)].rest = <<>>

\* A step leaves the stack stk and the instance s: a replay whose loop has ended
\* returns to its caller, and receiveRemoteDescription returns the field as it
\* is then.
Continue(stk, s) ==
    /\ stack' = IF LoopEnded(stk) THEN SubSeq(stk, 1, Len(stk) - 1) ELSE stk
    /\ descCalls' = IF LoopEnded(stk)
                    THEN IF stk[Len(stk)].op = "rrd"
                         THEN Append(descCalls, [ret |-> s.remoteDescriptionFuture])
                         ELSE descCalls
                    ELSE descCalls

\* _receiveMessage(m) with the stack stk below it: a handler it calls may call
\* back in before it returns (the handler's frame), unless the stack is full.
Dispatch(m, stk) ==
    /\ sig' = ReceiveMessage(sig, m)
    /\ asserts' = IF ReceiveThrows(m) THEN asserts + 1 ELSE asserts
    /\ Continue(IF CallsHandler(sig, m) /\ Len(stk) < MaxDepth
                THEN Append(stk, HandlerFrame)
                ELSE stk,
                ReceiveMessage(sig, m))

\* The transport hands an object to _receiveMessage. From inside a handler the
\* object comes back from a loopback peer, whose send methods build it with a
\* kind and a value.
Receive(t, v) ==
    /\ Callable
    /\ Len(received) < MaxMsgs
    /\ IF stack = <<>> THEN TRUE ELSE t \in Kinds /\ v # Absent
    /\ LET m == [id |-> Len(received) + 1, type |-> t, value |-> v] IN
         /\ Dispatch(m, stack)
         /\ received' = Append(received, m)
         /\ batchAt' = Append(batchAt, InBatches)
    /\ UNCHANGED outsideRouter

RrdStarted == Len(descCalls) + Cardinality({i \in 1..Len(stack) : stack[i].op = "rrd"})

\* The rest of a registering call, once its assignment has left the instance
\* s1: _processPendingInboundMessages captures the queue and starts its loop.
StartReplay(s1, op) ==
    /\ sig' = WithEmptyQueue(s1)
    /\ Continue(Append(stack, ReplayFrame(CapturedMessages(s1), op)), WithEmptyQueue(s1))
    /\ UNCHANGED <<received, batchAt, asserts>>

CallReceiveRemoteDescription ==
    /\ Callable
    /\ Len(stack) < MaxDepth
    /\ RrdStarted < MaxCalls
    /\ StartReplay(EnsureRemoteDescriptionFuture(sig), "rrd")
    /\ UNCHANGED outsideRouter

SetOnRemoteCandidate ==
    /\ Callable
    /\ Len(stack) < MaxDepth
    /\ StartReplay(SetRemoteCandidateHandler(sig, 1), "set")
    /\ UNCHANGED outsideRouter

SetOnRemoteData ==
    /\ Callable
    /\ Len(stack) < MaxDepth
    /\ StartReplay(SetRemoteDataHandler(sig, 1), "set")
    /\ UNCHANGED outsideRouter

\* One turn of the replay's loop.
ReplayStep ==
    /\ stack # <<>>
    /\ Top.f = "replay"
    /\ Top.rest # <<>>
    /\ Dispatch(Head(Top.rest), [stack EXCEPT ![Len(stack)].rest = Tail(@)])
    /\ UNCHANGED <<received, batchAt>>
    /\ UNCHANGED outsideRouter

\* The handler returns to the _receiveMessage that called it.
HandlerReturn ==
    /\ stack # <<>>
    /\ Top.f = "handler"
    /\ Continue(SubSeq(stack, 1, Len(stack) - 1), sig)
    /\ UNCHANGED <<sig, received, batchAt, asserts>>
    /\ UNCHANGED outsideRouter

RouterNext ==
    \/ \E t \in ReceivedTypes :
         \E v \in ReceivedValues(t, Len(received) + 1) : Receive(t, v)
    \/ CallReceiveRemoteDescription
    \/ SetOnRemoteCandidate
    \/ SetOnRemoteData
    \/ ReplayStep
    \/ HandlerReturn

\* ------------------------------------------------------------- sending
\* The same instance seen from the sending side: the test calls the send
\* methods and _done, and the transport delivers the peer's done envelope.
\*   sent       the messages handed to _sendMessage, in order
\*   doneCalls  each _done call: its argument and what it returned
LocalMessage(kind, value) == [type |-> kind, value |-> value]

DoneInit ==
    /\ sent = <<>>
    /\ doneCalls = <<>>

\* sendLocalDescription, sendLocalCandidate, sendData.
CallSend(kind) ==
    /\ Len(sent) < MaxSends
    /\ sent' = Append(sent, LocalMessage(kind, Obj(Len(sent) + 1)))
    /\ UNCHANGED <<sig, doneCalls, received, batchAt>>
    /\ UNCHANGED outsideDone

CallDone(result) ==
    /\ Len(doneCalls) < MaxCalls
    /\ Len(sent) < MaxSends
    /\ sent' = sent \o DoneMessages(sig, result)
    /\ sig' = DoneState(sig)
    /\ doneCalls' = Append(doneCalls, [result |-> result, ret |-> DoneResult(sig)])
    /\ UNCHANGED <<received, batchAt>>
    /\ UNCHANGED outsideDone

\* A done envelope arrives, with a result or without value.
ReceiveDone(result) ==
    /\ Len(received) < MaxCalls
    /\ LET m == [id |-> Len(received) + 1, type |-> "done", value |-> result] IN
         /\ sig' = ReceiveMessage(sig, m)
         /\ received' = Append(received, m)
         /\ batchAt' = Append(batchAt, InBatches)
    /\ UNCHANGED <<sent, doneCalls>>
    /\ UNCHANGED outsideDone

\* The test registers a handler: the setter's assignment and its replay.
RegisterHandler(kind) ==
    /\ sig' = ProcessPendingInboundMessages(
                 IF kind = "candidate" THEN SetRemoteCandidateHandler(sig, 1)
                 ELSE SetRemoteDataHandler(sig, 1))
    /\ UNCHANGED <<sent, doneCalls, received, batchAt>>
    /\ UNCHANGED outsideDone

DoneNext ==
    \/ \E kind \in QueuedKinds : CallSend(kind)
    \/ \E result \in DoneResults : CallDone(result)
    \/ \E result \in DoneResults \cup {Absent} : ReceiveDone(result)
    \/ \E kind \in {"candidate", "data"} : RegisterHandler(kind)

\* ------------------------------------------------------------- WebSocketSignaling
\* WebSocket.readyState values.
CONNECTING == 0
OPEN == 1
CLOSING == 2
CLOSED == 3

\* JSON.stringify of a message and JSON.parse of a frame: the text names the
\* members the object has.
JsonStringify(m) == [tag |-> "text", members |-> m]
JsonParse(text) == text.members

\* The fields WebSocketSignaling adds, with the socket's state and the frames
\* passed to ws.send, in order.
NewWebSocketSignaling ==
    [readyState |-> CONNECTING, pendingOutboundMessages |-> <<>>, wire |-> <<>>]

WsSendMessageDropsUnopened(w, m) ==
    IF w.readyState # OPEN THEN w
    ELSE [w EXCEPT !.wire = Append(@, JsonStringify(m))]

WsSendMessage(w, m) ==
    IF w.readyState # OPEN
    THEN [w EXCEPT !.pendingOutboundMessages = Append(@, m)]
    ELSE [w EXCEPT !.wire = Append(@, JsonStringify(m))]

\* The loop of ws.onopen from its i-th turn on: the array is read as it is at
\* each turn.
RECURSIVE WsOnOpenFrom(_, _)
WsOnOpenFrom(w, i) ==
    IF i > Len(w.pendingOutboundMessages) THEN w
    ELSE WsOnOpenFrom(WsSendMessage(w, w.pendingOutboundMessages[i]), i + 1)

WsOnOpenForgets(w) == w

WsOnOpenTwice(w) == WsOnOpenFrom(WsOnOpenFrom(w, 1), 1)

WsOnOpen(w) == WsOnOpenFrom(w, 1)

\* ws.close(), as _close calls it.
WsClose(w) ==
    IF w.readyState \in {CLOSING, CLOSED} THEN w ELSE [w EXCEPT !.readyState = CLOSING]

\* One WebSocketSignaling instance seen from the sending side.
\*   wsig       the instance's outbound fields and its socket
\*   wsCalls    the number of _sendMessage calls made by the instance's users;
\*              the n-th carries Obj(n)
\*   wsOpenAt   that number when the open event fired, -1 before
SocketInit ==
    /\ wsig = NewWebSocketSignaling
    /\ wsCalls = 0
    /\ wsOpenAt = -1

\* A send method or _done hands a message to _sendMessage.
WsCallSend(kind) ==
    /\ wsCalls < MaxSends
    /\ wsig' = WsSendMessage(wsig, LocalMessage(kind, Obj(wsCalls + 1)))
    /\ wsCalls' = wsCalls + 1
    /\ UNCHANGED wsOpenAt
    /\ UNCHANGED outsideSocket

\* The connection is established: the socket becomes OPEN and fires open, in
\* one task.
WsOpenEvent ==
    /\ wsig.readyState = CONNECTING
    /\ wsig' = WsOnOpen([wsig EXCEPT !.readyState = OPEN])
    /\ wsOpenAt' = wsCalls
    /\ UNCHANGED wsCalls
    /\ UNCHANGED outsideSocket

\* The test's cleanup calls _close.
WsCallClose ==
    /\ wsig.readyState \in {CONNECTING, OPEN}
    /\ wsig' = WsClose(wsig)
    /\ UNCHANGED <<wsCalls, wsOpenAt>>
    /\ UNCHANGED outsideSocket

\* The connection is closed, or could not be made.
WsCloseEvent ==
    /\ wsig.readyState # CLOSED
    /\ wsig' = [wsig EXCEPT !.readyState = CLOSED]
    /\ UNCHANGED <<wsCalls, wsOpenAt>>
    /\ UNCHANGED outsideSocket

SocketNext ==
    \/ \E kind \in Kinds : WsCallSend(kind)
    \/ WsOpenEvent
    \/ WsCallClose
    \/ WsCloseEvent

\* The call numbers of the frames on the wire, in the order sent.
WireCalls == [k \in 1..Len(wsig.wire) |-> JsonParse(wsig.wire[k]).value.n]

\* C6: the frames on the socket keep the order of the _sendMessage calls; once
\* the socket has opened, the messages passed before the open event are the
\* first frames, in the order they were passed; nothing is sent before.
C6_SendOrderPreserved ==
    /\ \A k, l \in 1..Len(wsig.wire) : k < l => WireCalls[k] < WireCalls[l]
    /\ wsOpenAt < 0 => wsig.wire = <<>>
    /\ wsOpenAt >= 0 =>
         /\ Len(wsig.wire) >= wsOpenAt
         /\ \A k \in 1..wsOpenAt : WireCalls[k] = k

\* Two messages were passed before the open event and one after it, and all
\* three are on the wire.
C6_Witness ==
    /\ wsOpenAt = 2
    /\ Len(wsig.wire) = 3

\* The call numbers of the messages in the outbound buffer, and how often a
\* call's message is on the wire.
BufferedCalls ==
    {wsig.pendingOutboundMessages[k].value.n : k \in 1..Len(wsig.pendingOutboundMessages)}
TimesOnWire(n) == Cardinality({k \in 1..Len(wsig.wire) : WireCalls[k] = n})

\* C17: a message passed to _sendMessage while the socket is not open stays in
\* the outbound buffer; it is not transmitted as long as no open event has
\* fired, it is transmitted exactly once when the open event fires after it,
\* and never when it was passed after the open event (the socket closing or
\* closed). No message is transmitted twice.
C17_BufferedSentOnce ==
    /\ \A n \in 1..wsCalls : TimesOnWire(n) <= 1
    /\ \A n \in 1..wsCalls : TimesOnWire(n) = 0 => n \in BufferedCalls
    /\ \A n \in BufferedCalls :
         TimesOnWire(n) = IF wsOpenAt >= 0 /\ n <= wsOpenAt THEN 1 ELSE 0
    /\ wsOpenAt >= 0 => 1..wsOpenAt \subseteq BufferedCalls

\* One message was passed before the open event, one while the socket was
\* open and one after close was called.
C17_Witness ==
    /\ wsOpenAt = 1
    /\ wsCalls = 3
    /\ Len(wsig.wire) = 2
    /\ BufferedCalls = {1, 3}
    /\ wsig.readyState = CLOSED

\* ------------------------------------------------------------- loopback
\* cross_browser_test without crossBrowser: two LoopbackSignaling instances,
\* each the other's peer, and the test function run once per role; each run
\* calls exchangeDescriptions, and may call exchangeCandidates, when it gets
\* there.
\*   lsig       the two instances: 1 is signaling1 (offering), 2 is signaling2
\*   lrole      per role, where its exchangeDescriptions call stands, the
\*              values it holds, its peer connection's descriptions, and
\*              the descriptions it passed to sendLocalDescription
\*   loopSent   the number of messages sent so far
Roles == {1, 2}
Other(r) == 3 - r
Offering(r) == r = 1

Unset == [tag |-> "unset"]
\* What createOffer and createAnswer of role r's peer connection give.
OfferOf(r) == [tag |-> "description", type |-> "offer", by |-> r]
AnswerOf(r) == [tag |-> "description", type |-> "answer", by |-> r]
CandidateOf(r, n) == [tag |-> "candidate", by |-> r, n |-> n]

LoopbackInit ==
    /\ lsig = [r \in Roles |-> NewSignaling]
    /\ lrole = [r \in Roles |->
                  [at |-> "idle", made |-> Unset, awaiting |-> 0, description |-> Unset,
                   pcLocal |-> JsNull, pcRemote |-> JsNull,
                   candidates |-> FALSE, found |-> 0, sent |-> <<>>]]
    /\ loopSent = 0

\* LoopbackSignaling._sendMessage by role r: the other instance receives it.
LoopbackSend(sigs, r, m) ==
    [sigs EXCEPT ![Other(r)] =
        ReceiveMessage(@, [id |-> loopSent + 1, type |-> m.type, value |-> m.value])]

\* const description = await this.receiveRemoteDescription(): the call, on the
\* instances sigs; the role then waits on what it returned.
WaitForRemoteDescription(sigs, r) ==
    /\ lsig' = [sigs EXCEPT ![r] = ReceiveRemoteDescription(@)]
    /\ lrole' = [lrole EXCEPT ![r].at = "awaitRemote",
                              ![r].awaiting = ReceiveRemoteDescriptionResult(sigs[r]),
                              ![r].pcLocal = IF Offering(r) THEN lrole[r].made ELSE @,
                              ![r].sent = IF Offering(r) THEN Append(@, lrole[r].made) ELSE @]

\* The test function of role r calls exchangeDescriptions.
CallExchangeDescriptions(r) ==
    /\ lrole[r].at = "idle"
    /\ IF Offering(r)
       THEN /\ lrole' = [lrole EXCEPT ![r].at = "createOffer"]
            /\ UNCHANGED lsig
       ELSE WaitForRemoteDescription(lsig, r)
    /\ UNCHANGED loopSent
    /\ UNCHANGED outsideLoopback

\* await pc.createOffer() resumes; pc.setLocalDescription(offer) is called.
CreateOfferResolves(r) ==
    /\ lrole[r].at = "createOffer"
    /\ lrole' = [lrole EXCEPT ![r].at = "setLocal", ![r].made = OfferOf(r)]
    /\ UNCHANGED <<lsig, loopSent>>
    /\ UNCHANGED outsideLoopback

\* await pc.setLocalDescription() resumes: the description is sent; the
\* offering role goes on to wait for the remote description.
SetLocalResolves(r) ==
    /\ lrole[r].at = "setLocal"
    /\ LET sigs == LoopbackSend(lsig, r, LocalMessage("description", lrole[r].made)) IN
         IF Offering(r)
         THEN WaitForRemoteDescription(sigs, r)
         ELSE /\ lsig' = sigs
              /\ lrole' = [lrole EXCEPT ![r].at = "done", ![r].pcLocal = lrole[r].made,
                                        ![r].sent = Append(@, lrole[r].made)]
    /\ loopSent' = loopSent + 1
    /\ UNCHANGED outsideLoopback

\* The await of what receiveRemoteDescription returned resumes;
\* pc.setRemoteDescription(description) is called.
AwaitResumes(r) ==
    /\ lrole[r].at = "awaitRemote"
    /\ Awaited(lsig[r], lrole[r].awaiting) # StillWaiting
    /\ lrole' = [lrole EXCEPT ![r].at = "setRemote",
                              ![r].description = Awaited(lsig[r], lrole[r].awaiting)]
    /\ UNCHANGED <<lsig, loopSent>>
    /\ UNCHANGED outsideLoopback

\* if (!offering) after the remote description is applied.
AfterRemoteReturns(r) == "done"

AfterRemote(r) == IF Offering(r) THEN "done" ELSE "createAnswer"

\* await pc.setRemoteDescription(description) resumes, or throws when the
\* description is null; the answering role then calls pc.createAnswer().
SetRemoteResolves(r) ==
    /\ lrole[r].at = "setRemote"
    /\ lrole' = IF lrole[r].description = JsNull
                THEN [lrole EXCEPT ![r].at = "failed"]
                ELSE [lrole EXCEPT ![r].pcRemote = lrole[r].description,
                                   ![r].at = AfterRemote(r)]
    /\ UNCHANGED <<lsig, loopSent>>
    /\ UNCHANGED outsideLoopback

\* await pc.createAnswer() resumes; pc.setLocalDescription(answer) is called.
CreateAnswerResolves(r) ==
    /\ lrole[r].at = "createAnswer"
    /\ lrole' = [lrole EXCEPT ![r].at = "setLocal", ![r].made = AnswerOf(r)]
    /\ UNCHANGED <<lsig, loopSent>>
    /\ UNCHANGED outsideLoopback

\* The test function of role r calls exchangeCandidates.
CallExchangeCandidates(r) ==
    /\ ~lrole[r].candidates
    /\ lsig' = [lsig EXCEPT ![r] =
                  ProcessPendingInboundMessages(SetRemoteCandidateHandler(@, 1))]
    /\ lrole' = [lrole EXCEPT ![r].candidates = TRUE]
    /\ UNCHANGED loopSent
    /\ UNCHANGED outsideLoopback

\* The peer connection of role r, with a local description, finds a candidate:
\* the icecandidate listener sends it.
IceCandidate(r) ==
    /\ lrole[r].candidates
    /\ lrole[r].pcLocal # JsNull
    /\ lrole[r].found < MaxCandidates
    /\ lsig' = LoopbackSend(lsig, r,
                  LocalMessage("candidate", CandidateOf(r, lrole[r].found + 1)))
    /\ lrole' = [lrole EXCEPT ![r].found = @ + 1]
    /\ loopSent' = loopSent + 1
    /\ UNCHANGED outsideLoopback

LoopbackNext ==
    \/ \E r \in Roles : CallExchangeDescriptions(r)
    \/ \E r \in Roles : CreateOfferResolves(r)
    \/ \E r \in Roles : SetLocalResolves(r)
    \/ \E r \in Roles : AwaitResumes(r)
    \/ \E r \in Roles : SetRemoteResolves(r)
    \/ \E r \in Roles : CreateAnswerResolves(r)
    \/ \E r \in Roles : CallExchangeCandidates(r)
    \/ \E r \in Roles : IceCandidate(r)

\* C5: in loopback mode, under every interleaving, what a role's await of
\* receiveRemoteDescription gives is the description the other role applied
\* locally and sent; so once both calls have completed, each side's remote
\* description is the other side's local description.
C5_LoopbackRoundTrip ==
    \A r \in Roles :
      /\ lrole[r].description # Unset => lrole[r].description = lrole[Other(r)].pcLocal
      /\ lrole[r].at = "done" => lrole[r].pcRemote = lrole[Other(r)].pcLocal

\* Role r's instance has handed a description to its receiveRemoteDescription.
GotDescription(r) ==
    \E k \in 1..Len(lsig[r].delivered) : lsig[r].delivered[k].to = "description"

\* C14: exchangeDescriptions keeps the offer/answer order. A role sends one
\* description at most, the one it has applied locally, and exactly one once
\* its call has completed. The offering role has sent its offer from the
\* moment it waits for the remote description. The answering role has sent
\* nothing before it received a remote description and applied it; what it
\* sends then is the answer it made after that and applied locally.
C14_OfferAnswerOrder ==
    \A r \in Roles :
      /\ Len(lrole[r].sent) <= 1
      /\ lrole[r].at = "done" => Len(lrole[r].sent) = 1
      /\ lrole[r].sent # <<>> => lrole[r].sent[1] = lrole[r].pcLocal
      /\ Offering(r) =>
           /\ lrole[r].sent # <<>> <=> lrole[r].at \in {"awaitRemote", "setRemote", "done", "failed"}
           /\ lrole[r].sent # <<>> => lrole[r].sent[1] = OfferOf(r)
      /\ ~Offering(r) =>
           /\ lrole[r].at \in {"createAnswer", "setLocal"} \/ lrole[r].sent # <<>> =>
                /\ GotDescription(r)
                /\ lrole[r].pcRemote # JsNull
                /\ lrole[r].pcRemote = lrole[r].description
           /\ lrole[r].sent # <<>> =>
                /\ lrole[r].at = "done"
                /\ lrole[r].sent[1] = AnswerOf(r)

C14_Witness ==
    /\ \A r \in Roles : lrole[r].at = "done"
    /\ lrole[1].sent = <<OfferOf(1)>>
    /\ lrole[2].sent = <<AnswerOf(2)>>
    /\ lrole[1].pcRemote = AnswerOf(2)

\* A step of role r's exchangeDescriptions call: the call itself, or the
\* resumption of one of its awaits.
ExchangeStep(r) ==
    \/ CallExchangeDescriptions(r)
    \/ CreateOfferResolves(r)
    \/ SetLocalResolves(r)
    \/ AwaitResumes(r)
    \/ SetRemoteResolves(r)
    \/ CreateAnswerResolves(r)

\* C19: in loopback mode, with both roles calling exchangeDescriptions and
\* every step that can be taken taken in the end, both calls complete.
C19_BothComplete == <>(\A r \in Roles : lrole[r].at = "done")

\* ------------------------------------------------------------- cross-browser
\* cross_browser_test with crossBrowser, in the two browsers: each side has its
\* test, a WebSocketSignaling instance and the overridden test.done; the relay
\* passes the frames one side sends to the other side, in order.
\*   side    per side: the Signaling fields (sig), the socket fields (ws), the
\*           test, how the test function ended (body), the number of data
\*           messages it sent, the test.done calls waiting at their await with
\*           the status each reported, the record of the calls that went on to
\*           the original done, and whether the peer's done envelope was
\*           received before test.done was first called
\*   relay   per side, the frames on their way to it
Sides == {0, 1}
Peer(s) == 1 - s

\* testharness.js: the phases of a test, and the status of one without result.
INITIAL == 0
STARTED == 1
HAS_RESULT == 2
CLEANING == 3
COMPLETE == 4
NOTRUN == 3

\* testharness.js: the test as promise_test runs its function, set_status,
\* and the done that test.done was before it was replaced.
NewTest == [phase |-> STARTED, status |-> NOTRUN, message |-> JsNull]
SetStatus(t, status, message) == [t EXCEPT !.status = status, !.message = message]
OriginalDone(t) ==
    IF t.phase >= CLEANING THEN t
    ELSE [(IF t.phase <= STARTED THEN SetStatus(t, PASS, JsNull) ELSE t)
            EXCEPT !.phase = COMPLETE]
\* testharness.js: a failed assertion or a timeout in the test function.
Fails(t, status, message) == [SetStatus(t, status, message) EXCEPT !.phase = HAS_RESULT]

\* How a test function may end, with the status and message testharness.js sets.
BodyOutcomes == {"pass", "fail", "timeout"}
OutcomeStatus(o) == IF o = "fail" THEN FAIL ELSE TIMEOUT
OutcomeMessage(o) == IF o = "fail" THEN Str(<<"X">>) ELSE Str(<<"Test timed out">>)

\* The overridden test.done, up to its await.
LocalStatusUnguarded(t) == t.status

LocalStatus(t) == IF t.phase <= STARTED THEN PASS ELSE t.status

LocalReport(t) ==
    LET status == LocalStatus(t) IN
      Report(status, IF status # PASS THEN t.message ELSE JsNull)

\* `(Remote) ${remote.message}`
TemplateText(v) == IF v = JsNull THEN <<"null">> ELSE v.s
RemoteMessage(remote) == Str(<<"(Remote) ">> \o TemplateText(remote.message))

\* The overridden test.done, after its await and before the original done.
ReconcileIgnoresRemote(t, local, remote) == t

ReconcileOverridesLocal(t, local, remote) ==
    IF remote.status # PASS
    THEN [SetStatus(t, FAIL, RemoteMessage(remote)) EXCEPT !.phase = HAS_RESULT]
    ELSE t

Reconcile(t, local, remote) ==
    IF local.status = PASS /\ remote.status # PASS
    THEN [SetStatus(t, FAIL, RemoteMessage(remote)) EXCEPT !.phase = HAS_RESULT]
    ELSE t

RECURSIVE WsSendAll(_, _)
WsSendAll(w, msgs) ==
    IF msgs = <<>> THEN w ELSE WsSendAll(WsSendMessage(w, Head(msgs)), Tail(msgs))

CrossInit ==
    /\ side = [s \in Sides |->
                 [sig |-> NewSignaling, ws |-> NewWebSocketSignaling, test |-> NewTest,
                  body |-> "running", data |-> 0, waiting |-> <<>>, log |-> <<>>,
                  early |-> FALSE]]
    /\ relay = [s \in Sides |-> <<>>]

\* The frames side s passed to ws.send in this step go to the relay.
Transmit(s, w) ==
    relay' = [relay EXCEPT ![Peer(s)] =
                @ \o SubSeq(w.wire, Len(side[s].ws.wire) + 1, Len(w.wire))]

XOpenEvent(s) ==
    /\ side[s].ws.readyState = CONNECTING
    /\ LET w == WsOnOpen([side[s].ws EXCEPT !.readyState = OPEN]) IN
         /\ side' = [side EXCEPT ![s].ws = w]
         /\ Transmit(s, w)
    /\ UNCHANGED outsideCross

\* The test function calls signaling.sendData.
XSendData(s) ==
    /\ side[s].body = "running"
    /\ side[s].data < MaxData
    /\ LET w == WsSendMessage(side[s].ws, LocalMessage("data", Obj(side[s].data + 1))) IN
         /\ side' = [side EXCEPT ![s].ws = w, ![s].data = @ + 1]
         /\ Transmit(s, w)
    /\ UNCHANGED outsideCross

\* test.done() is called on the test t of side s: the part before the await.
TestDone(s, t, body) ==
    LET local == LocalReport(t)
        w == WsSendAll(side[s].ws, DoneMessages(side[s].sig, local)) IN
      /\ side' = [side EXCEPT ![s].sig = DoneState(@), ![s].ws = w, ![s].test = t,
                              ![s].body = body, ![s].waiting = Append(@, local)]
      /\ Transmit(s, w)

\* The test function of side s ends: it returns, or an assertion fails, or the
\* test times out; testharness.js calls test.done.
BodyEnds(s, o) ==
    /\ side[s].body = "running"
    /\ TestDone(s, IF o = "pass" THEN side[s].test
                   ELSE Fails(side[s].test, OutcomeStatus(o), OutcomeMessage(o)), o)
    /\ UNCHANGED outsideCross

\* test.done() is called once more.
CallDoneAgain(s) ==
    /\ side[s].body # "running"
    /\ Len(side[s].waiting) + Len(side[s].log) < MaxCalls
    /\ TestDone(s, side[s].test, side[s].body)
    /\ UNCHANGED outsideCross

\* ws.onmessage on side s, for the next frame from the relay.
XMessageEvent(s) ==
    /\ relay[s] # <<>>
    /\ side[s].ws.readyState = OPEN
    /\ LET o == JsonParse(Head(relay[s]))
           n == Len(side[s].sig.delivered) + Len(side[s].sig.pendingInboundMessages) + 1
           m == [id |-> n, type |-> o.type, value |-> o.value] IN
         side' = [side EXCEPT ![s].sig = ReceiveMessage(@, m),
                              ![s].early = IF o.type = "done"
                                           THEN side[s].waiting = <<>> /\ side[s].log = <<>>
                                           ELSE @]
    /\ relay' = [relay EXCEPT ![s] = Tail(@)]
    /\ UNCHANGED outsideCross

\* A test.done call of side s resumes from its await with the remote status,
\* and goes on to the original done, whose cleanup closes the socket.
XResume(s) ==
    /\ side[s].waiting # <<>>
    /\ Awaited(side[s].sig, DoneResult(side[s].sig)) # StillWaiting
    /\ LET local == Head(side[s].waiting)
           remote == Awaited(side[s].sig, DoneResult(side[s].sig))
           t == Reconcile(side[s].test, local, remote) IN
         side' = [side EXCEPT ![s].waiting = Tail(@),
                              ![s].log = Append(@, [local |-> local, remote |-> remote,
                                                    status |-> t.status,
                                                    message |-> t.message]),
                              ![s].test = OriginalDone(t),
                              ![s].ws = IF t.phase < CLEANING THEN WsClose(@) ELSE @]
    /\ UNCHANGED relay
    /\ UNCHANGED outsideCross

\* The closing handshake of side s's socket ends.
XCloseEvent(s) ==
    /\ side[s].ws.readyState = CLOSING
    /\ side' = [side EXCEPT ![s].ws.readyState = CLOSED]
    /\ UNCHANGED relay
    /\ UNCHANGED outsideCross

CrossNext ==
    \/ \E s \in Sides : XOpenEvent(s)
    \/ \E s \in Sides : XSendData(s)
    \/ \E s \in Sides : \E o \in BodyOutcomes : BodyEnds(s, o)
    \/ \E s \in Sides : CallDoneAgain(s)
    \/ \E s \in Sides : XMessageEvent(s)
    \/ \E s \in Sides : XResume(s)
    \/ \E s \in Sides : XCloseEvent(s)

\* The string msg has the string x in it.
Mentions(msg, x) ==
    /\ msg # JsNull
    /\ \E i \in 1..Len(msg.s) : SubSeq(msg.s, i, i + Len(x.s) - 1) = x.s

\* The test.done calls of side s that reported PASS and got a non-PASS status.
Downgrades(s) ==
    {k \in 1..Len(side[s].log) :
        side[s].log[k].local.status = PASS /\ side[s].log[k].remote.status # PASS}

\* C7: in cross-browser mode, a test.done call that reported PASS and whose
\* remote status is not PASS, with message X, has set the test's status to
\* FAIL with a message that contains X when it calls the original done; the
\* status of the completed test is FAIL.
C7_RemoteFailureDowngrades ==
    \A s \in Sides : \A k \in Downgrades(s) :
      /\ side[s].log[k].status = FAIL
      /\ Mentions(side[s].log[k].message, side[s].log[k].remote.message)
      /\ side[s].test.phase = COMPLETE
      /\ side[s].test.status = FAIL
      /\ Mentions(side[s].test.message, side[s].log[k].remote.message)

C7_Witness ==
    /\ Downgrades(1) # {}
    /\ side[1].log[1].remote = Report(FAIL, Str(<<"X">>))
    /\ side[0].body = "fail"
    /\ side[1].body = "pass"

\* C8: in cross-browser mode, when both test functions have ended and every
\* test.done call reported PASS, the remote-done future of each side resolves
\* to {status: PASS, message: null} and no test gets another status than
\* PASS, whichever side called done first and whether the peer's done envelope
\* came before or after the local call.
C8_BothPassStayPass ==
    (\A s \in Sides : side[s].body = "pass") =>
      \A s \in Sides :
        /\ Awaited(side[s].sig, DoneResult(side[s].sig)) \in {StillWaiting, Report(PASS, JsNull)}
        /\ \A k \in 1..Len(side[s].log) :
             /\ side[s].log[k].remote = Report(PASS, JsNull)
             /\ side[s].log[k].status \in {NOTRUN, PASS}
        /\ side[s].test.status \in {NOTRUN, PASS}
        /\ side[s].test.phase = COMPLETE => side[s].test.status = PASS

C8_Witness ==
    /\ \A s \in Sides : /\ side[s].body = "pass"
                        /\ side[s].test.phase = COMPLETE
                        /\ side[s].test.status = PASS
                        /\ side[s].log # <<>>
    /\ side[0].early
    /\ ~side[1].early

\* The done envelopes among the frames side s has transmitted.
DoneFrames(s) ==
    {k \in 1..Len(side[s].ws.wire) : JsonParse(side[s].ws.wire[k]).type = "done"}
\* The status report of a test whose function ended with outcome o.
ReportOf(o) ==
    IF o = "pass" THEN Report(PASS, JsNull)
    ELSE Report(OutcomeStatus(o), OutcomeMessage(o))
RemoteDoneReceived(s) ==
    \E k \in 1..Len(side[s].sig.delivered) : side[s].sig.delivered[k].to = "done"

\* C15: in cross-browser mode the original done is not called before the
\* local status was transmitted in a done envelope and the peer's done
\* envelope was received. The status sent is PASS for a test still at or
\* before STARTED and the test's status otherwise; its message is null exactly
\* when that status is PASS.
C15_DoneHeldBack ==
    \A s \in Sides :
      /\ \A k \in DoneFrames(s) :
           LET local == JsonParse(side[s].ws.wire[k]).value IN
             /\ local = ReportOf(side[s].body)
             /\ local.message = JsNull <=> local.status = PASS
      /\ side[s].log # <<>> =>
           /\ DoneFrames(s) # {}
           /\ RemoteDoneReceived(s)
           /\ \A k \in DoneFrames(s) :
                JsonParse(side[s].ws.wire[k]).value = side[s].log[1].local

\* A test that timed out called test.done before its socket was open, and has
\* gone on to the original done since.
C15_Witness ==
    /\ side[0].log # <<>>
    /\ side[0].body = "timeout"
    /\ side[0].ws.pendingOutboundMessages # <<>>
    /\ side[0].ws.pendingOutboundMessages[1].type = "done"
    /\ side[1].body = "pass"

\* The original done has completed the test of side s.
Final(s) == side[s].log # <<>> /\ side[s].test.phase = COMPLETE

TestIds == 1..NumTests
NoSocket == -1

ReadyInit ==
    /\ page = [loaded |-> FALSE, crossBrowserEnabled |-> FALSE, baseUrl |-> FALSE,
               readyFuture |-> NewFuture, ws |-> NoSocket, sends |-> 0,
               resolvedBy |-> <<>>]
    /\ inbox = [waiting |-> 0, relayed |-> 0]
    /\ tests = [t \in TestIds |-> [at |-> "uncalled", signaling |-> "none"]]

\* The script runs: the URL parameters are read, readyFuture is made, and
\* either the rendezvous socket is created or readyFuture is resolved.
LoadScript(crossBrowser, signalingServer) ==
    /\ ~page.loaded
    /\ page' = IF crossBrowser
               THEN [page EXCEPT !.loaded = TRUE, !.crossBrowserEnabled = TRUE,
                                 !.baseUrl = signalingServer, !.ws = CONNECTING]
               ELSE [page EXCEPT !.loaded = TRUE, !.baseUrl = signalingServer,
                                 !.readyFuture = FutureResolve(@, Absent),
                                 !.resolvedBy = Append(@, "load")]
    /\ UNCHANGED <<inbox, tests>>
    /\ UNCHANGED outsideReady

\* ws.onopen of the rendezvous socket: ws.send('').
RendezvousOpen ==
    /\ page.ws = CONNECTING
    /\ page' = [page EXCEPT !.ws = OPEN, !.sends = @ + 1]
    /\ UNCHANGED <<inbox, tests>>
    /\ UNCHANGED outsideReady

\* The relay sends a message to the connected rendezvous socket.
RelaySends ==
    /\ page.ws \in {OPEN, CLOSING}
    /\ inbox.relayed < MaxRelayed
    /\ inbox' = [waiting |-> inbox.waiting + 1, relayed |-> inbox.relayed + 1]
    /\ UNCHANGED <<page, tests>>
    /\ UNCHANGED outsideReady

\* ws.onmessage of the rendezvous socket: readyFuture.resolve(), ws.close().
RendezvousMessage ==
    /\ page.ws = OPEN
    /\ inbox.waiting > 0
    /\ page' = [page EXCEPT !.readyFuture = FutureResolve(@, Absent),
                            !.resolvedBy = Append(@, "message"),
                            !.ws = CLOSING]
    /\ inbox' = [inbox EXCEPT !.waiting = @ - 1]
    /\ UNCHANGED tests
    /\ UNCHANGED outsideReady

\* The closing handshake of the rendezvous socket ends.
RendezvousClosed ==
    /\ page.ws = CLOSING
    /\ page' = [page EXCEPT !.ws = CLOSED]
    /\ UNCHANGED <<inbox, tests>>
    /\ UNCHANGED outsideReady

\* cross_browser_test is called and promise_test runs the function, up to
\* await Promise.resolve().
CallCrossBrowserTest(t) ==
    /\ page.loaded
    /\ tests[t].at = "uncalled"
    /\ tests' = [tests EXCEPT ![t].at = "tick"]
    /\ UNCHANGED <<page, inbox>>
    /\ UNCHANGED outsideReady

\* The function goes on to await readyFuture.
AwaitReady(t) ==
    /\ tests[t].at = "tick"
    /\ tests' = [tests EXCEPT ![t].at = "gate"]
    /\ UNCHANGED <<page, inbox>>
    /\ UNCHANGED outsideReady

\* await readyFuture lets the function go on.
GateAlwaysOpen(f) == TRUE

GateOpen(f) == f.state = "fulfilled"

\* The function resumes after await readyFuture: the signaling is created and
\* func is called, unless the base URL is missing in cross-browser mode.
PassGate(t) ==
    /\ tests[t].at = "gate"
    /\ GateOpen(page.readyFuture)
    /\ tests' = IF page.crossBrowserEnabled
                THEN IF page.baseUrl
                     THEN [tests EXCEPT ![t] = [at |-> "func", signaling |-> "websocket"]]
                     ELSE [tests EXCEPT ![t].at = "failed"]
                ELSE [tests EXCEPT ![t] = [at |-> "func", signaling |-> "loopback"]]
    /\ UNCHANGED <<page, inbox>>
    /\ UNCHANGED outsideReady

ReadyNext ==
    \/ \E crossBrowser, signalingServer \in BOOLEAN : LoadScript(crossBrowser, signalingServer)
    \/ RendezvousOpen
    \/ RelaySends
    \/ RendezvousMessage
    \/ RendezvousClosed
    \/ \E t \in TestIds : CallCrossBrowserTest(t)
    \/ \E t \in TestIds : AwaitReady(t)
    \/ \E t \in TestIds : PassGate(t)

\* A test has called func or created its signaling.
Started(t) == tests[t].at = "func" \/ tests[t].signaling # "none"

GateHeld ==
    /\ \A t \in TestIds : Started(t) =>
         /\ page.readyFuture.state = "fulfilled"
         /\ page.crossBrowserEnabled =>
              /\ tests[t].signaling = "websocket"
              /\ page.resolvedBy[1] = "message"
    /\ page.sends <= 1
    /\ page.loaded /\ ~page.crossBrowserEnabled =>
         /\ page.readyFuture.state = "fulfilled"
         /\ page.sends = 0

StaysResolved ==
    page.readyFuture.state = "fulfilled" => page'.readyFuture = page.readyFuture

\* C9: in cross-browser mode no func starts and no WebSocketSignaling is
\* created before readyFuture was resolved by a message on the rendezvous
\* socket; a resolved readyFuture stays resolved and the rendezvous socket
\* sends once at most, so later tests pass the gate without another round
\* trip; without crossBrowser readyFuture is resolved at load.
C9_GateBeforeTests == []GateHeld /\ [][StaysResolved]_vars

C9_Witness ==
    /\ page.crossBrowserEnabled
    /\ \A t \in TestIds : tests[t].at = "func"
    /\ page.sends = 1
    /\ Len(page.resolvedBy) = 1
    /\ page.ws = CLOSED

\* ------------------------------------------------------------- registering
\* One Signaling instance whose handlers return without calling the instance:
\* every call runs to its end before the next.
\*   asig      the instance
\*   prior     the instance as it was before the last call
\*   lastCall  the last call: "receive", "candidate" and "data" for the two
\*             setters, "description" for receiveRemoteDescription, "done"
\*             for _done
SetHandlerBoth(s, kind) == SetRemoteDataHandler(SetRemoteCandidateHandler(s, 1), 1)

SetHandler(s, kind) ==
    IF kind = "candidate" THEN SetRemoteCandidateHandler(s, 1)
    ELSE SetRemoteDataHandler(s, 1)

RegisterInit ==
    /\ asig = NewSignaling
    /\ prior = NewSignaling
    /\ lastCall = "none"

\* The number of envelopes the instance has received.
Arrivals(s) == Len(s.pendingInboundMessages) + Len(s.delivered)

\* _receiveMessage with an envelope of kind t.
AReceive(t) ==
    /\ Arrivals(asig) < MaxMsgs
    /\ asig' = ReceiveMessage(asig, [id |-> Arrivals(asig) + 1, type |-> t,
                                     value |-> PayloadOf(Arrivals(asig) + 1)])
    /\ prior' = asig
    /\ lastCall' = "receive"
    /\ UNCHANGED outsideRegister

\* set onRemoteCandidate, set onRemoteData.
ASetHandler(kind) ==
    /\ asig' = ProcessPendingInboundMessages(SetHandler(asig, kind))
    /\ prior' = asig
    /\ lastCall' = kind
    /\ UNCHANGED outsideRegister

AReceiveRemoteDescription ==
    /\ Len(asig.futures) <= MaxCalls
    /\ asig' = ReceiveRemoteDescription(asig)
    /\ prior' = asig
    /\ lastCall' = "description"
    /\ UNCHANGED outsideRegister

ADone ==
    /\ asig' = DoneState(asig)
    /\ prior' = asig
    /\ lastCall' = "done"
    /\ UNCHANGED outsideRegister

RegisterNext ==
    \/ \E t \in Kinds : AReceive(t)
    \/ \E kind \in {"candidate", "data"} : ASetHandler(kind)
    \/ AReceiveRemoteDescription
    \/ ADone

\* The envelopes of a sequence that are of the kind, or that are not.
RECURSIVE OfKind(_, _, _)
OfKind(seq, kind, is) ==
    IF seq = <<>> THEN <<>>
    ELSE IF (Head(seq).type = kind) = is
         THEN <<Head(seq)>> \o OfKind(Tail(seq), kind, is)
         ELSE OfKind(Tail(seq), kind, is)

\* The deliveries the last call has made.
NewDeliveries == SubSeq(asig.delivered, Len(prior.delivered) + 1, Len(asig.delivered))

\* C20: a setter affects the envelopes of its kind only. After set
\* onRemoteCandidate, or set onRemoteData, the new deliveries are the queued
\* envelopes of that kind, in their order, each to that handler; the envelopes
\* of the other kinds stay queued in their order; the description slot, the
\* futures, the other handler, _doneSent and the remote-done future are as
\* before.
C20_SetterTouchesItsKindOnly ==
    lastCall \in {"candidate", "data"} =>
      /\ SubSeq(asig.delivered, 1, Len(prior.delivered)) = prior.delivered
      /\ \A k \in 1..Len(NewDeliveries) : NewDeliveries[k].to = lastCall
      /\ [k \in 1..Len(NewDeliveries) |-> NewDeliveries[k].id]
           = [k \in 1..Len(OfKind(prior.pendingInboundMessages, lastCall, TRUE)) |->
                OfKind(prior.pendingInboundMessages, lastCall, TRUE)[k].id]
      /\ asig.pendingInboundMessages = OfKind(prior.pendingInboundMessages, lastCall, FALSE)
      /\ asig.remoteDescriptionFuture = prior.remoteDescriptionFuture
      /\ asig.futures = prior.futures
      /\ asig.doneSent = prior.doneSent
      /\ asig.remoteDoneFuture = prior.remoteDoneFuture
      /\ lastCall = "candidate" => asig.remoteDataHandler = prior.remoteDataHandler
      /\ lastCall = "data" => asig.remoteCandidateHandler = prior.remoteCandidateHandler

\* set onRemoteCandidate has delivered the candidate queued between a data
\* envelope and a description envelope, which both stay queued.
C20_Witness ==
    /\ lastCall = "candidate"
    /\ Len(prior.pendingInboundMessages) = 3
    /\ prior.pendingInboundMessages[1].type = "data"
    /\ prior.pendingInboundMessages[2].type = "candidate"
    /\ prior.pendingInboundMessages[3].type = "description"
    /\ Len(asig.pendingInboundMessages) = 2
    /\ asig.remoteDataHandler = 0
    /\ asig.doneSent

\* ------------------------------------------------------------- one Future
\* One Future with the callers of its resolve and reject and the tasks that
\* await it.
\*   fut        the Future
\*   thenable   the promise a resolve call may pass: pending, or its outcome
\*   settleLog  the resolve and reject calls made, in order
\*   awaiter    per awaiting task: idle, waiting, or released with what it saw

Awaiters == 1..NumAwaiters
PlainValues == {Obj(1), Obj(2)}
Errors == {Str(<<"E">>)}
Outcome(state, value) == [state |-> state, value |-> value]
Unsettled == Outcome("pending", JsNull)
OutcomeOf(f) == Outcome(f.state, IF f.state = "pending" THEN JsNull ELSE f.value)

FutureInit ==
    /\ fut = NewFuture
    /\ thenable = Unsettled
    /\ settleLog = <<>>
    /\ awaiter = [a \in Awaiters |-> [at |-> "idle", saw |-> Unsettled]]

CallResolve(v) ==
    /\ Len(settleLog) < MaxSettleCalls
    /\ fut' = FutureResolve(fut, v)
    /\ settleLog' = Append(settleLog, [op |-> "resolve", arg |-> v])
    /\ UNCHANGED <<thenable, awaiter>>
    /\ UNCHANGED outsideFuture

CallReject(e) ==
    /\ Len(settleLog) < MaxSettleCalls
    /\ fut' = FutureReject(fut, e)
    /\ settleLog' = Append(settleLog, [op |-> "reject", arg |-> e])
    /\ UNCHANGED <<thenable, awaiter>>
    /\ UNCHANGED outsideFuture

\* The promise that was passed to resolve settles, by its own owner.
ThenableSettles(o) ==
    /\ thenable.state = "pending"
    /\ thenable' = o
    /\ UNCHANGED <<fut, settleLog, awaiter>>
    /\ UNCHANGED outsideFuture

\* The job that makes a future locked in to a promise take its outcome.
FollowThenable ==
    /\ thenable.state # "pending"
    /\ fut.called /\ fut.state = "pending"
    /\ fut' = FutureFollow(fut, thenable)
    /\ UNCHANGED <<thenable, settleLog, awaiter>>
    /\ UNCHANGED outsideFuture

\* A task starts to await the future.
StartAwait(a) ==
    /\ awaiter[a].at = "idle"
    /\ awaiter' = [awaiter EXCEPT ![a].at = "waiting"]
    /\ UNCHANGED <<fut, thenable, settleLog>>
    /\ UNCHANGED outsideFuture

\* The reaction job of a settled future resumes a task that awaits it.
Resume(a) ==
    /\ awaiter[a].at = "waiting"
    /\ fut.state # "pending"
    /\ awaiter' = [awaiter EXCEPT ![a] = [at |-> "released", saw |-> OutcomeOf(fut)]]
    /\ UNCHANGED <<fut, thenable, settleLog>>
    /\ UNCHANGED outsideFuture

FutureNext ==
    \/ \E v \in PlainValues \cup Thenables : CallResolve(v)
    \/ \E e \in Errors : CallReject(e)
    \/ \E o \in {Outcome("fulfilled", Obj(3)), Outcome("rejected", Str(<<"T">>))} :
         ThenableSettles(o)
    \/ FollowThenable
    \/ \E a \in Awaiters : StartAwait(a)
    \/ \E a \in Awaiters : Resume(a)

\* What the first call fixes: a value, an error, or the outcome of the promise
\* it passed, once that promise has one.
FixedBy(call) ==
    IF call.op = "reject" THEN {Outcome("rejected", call.arg)}
    ELSE IF call.arg \in Thenables THEN {Unsettled, thenable}
    ELSE {Outcome("fulfilled", call.arg)}

\* C10: a Future starts pending; its first resolve or reject call fixes the
\* outcome and no later call changes it; every task released from awaiting it
\* saw that outcome; no task is released while it is pending.
C10_SettledOnce ==
    /\ settleLog = <<>> => (fut.state = "pending" /\ ~fut.called)
    /\ settleLog # <<>> => OutcomeOf(fut) \in FixedBy(settleLog[1])
    /\ \A a \in Awaiters :
         awaiter[a].at = "released" =>
             (fut.state # "pending" /\ awaiter[a].saw = OutcomeOf(fut))
    /\ \A a \in Awaiters : awaiter[a].at # "released" => awaiter[a].saw = Unsettled

\* Three calls were made with different arguments, and two tasks, one that
\* began to wait before the first call and one after the last, were released.
C10_Witness ==
    /\ Len(settleLog) = 3
    /\ settleLog[1].op = "resolve" /\ settleLog[1].arg \in PlainValues
    /\ settleLog[2].op = "reject"
    /\ settleLog[3].op = "resolve" /\ settleLog[3].arg # settleLog[1].arg
    /\ \A a \in Awaiters : awaiter[a].at = "released"

\* ------------------------------------------------------------- specifications
\* Every part as it is made.
Init == RouterInit /\ DoneInit /\ FutureInit /\ SocketInit /\ LoopbackInit /\ CrossInit /\ ReadyInit /\ RegisterInit

\* The router of one Signaling instance.
Spec == Init /\ [][RouterNext]_vars

\* One Future, its callers and its awaiters.
SpecFuture == Init /\ [][FutureNext]_vars

\* The sending side of one WebSocketSignaling instance.
SpecWebSocket == Init /\ [][SocketNext]_vars

\* Loopback mode: two instances and the two runs of the test function.
SpecLoopback == Init /\ [][LoopbackNext]_vars

\* Cross-browser mode: the two sides of one test and the relay.
SpecCrossBrowser == Init /\ [][CrossNext]_vars

\* One page, its rendezvous and the gate its tests wait at.
SpecReady == Init /\ [][ReadyNext]_vars

\* Loopback mode when each role calls exchangeDescriptions and the event loop
\* runs every task and every continuation that is ready.
SpecLoopbackFair ==
    /\ Init
    /\ [][LoopbackNext]_vars
    /\ \A r \in Roles : WF_vars(ExchangeStep(r))

\* One Signaling instance with handlers that do not call back in.
SpecRegister == Init /\ [][RegisterNext]_vars

\* The sending side of one Signaling instance.
SpecDone == Init /\ [][DoneNext]_vars

\* ------------------------------------------------------------- router claims
\* The received envelopes that wait for a consumer when there is none.
RoutedIds == {i \in 1..Len(received) : received[i].type \in QueuedKinds}
DescriptionIds == {i \in 1..Len(received) : received[i].type = "description"}

Occurrences(seq, i) == Cardinality({k \in 1..Len(seq) : seq[k].id = i})
RECURSIVE InReplays(_, _)
InReplays(n, i) ==
    IF n = 0 THEN 0 ELSE Occurrences(stack[n].rest, i) + InReplays(n - 1, i)

\* C1: with one description envelope of payload D received, the first call of
\* receiveRemoteDescription gives the caller D, whether the call was made before
\* the envelope was received or after it.
C1_SameValueEitherOrder ==
    (Quiescent /\ Cardinality(DescriptionIds) = 1 /\ descCalls # <<>>)
        => \A i \in DescriptionIds :
             Awaited(sig, descCalls[1].ret) = WithValue(received[i]).value

\* C2: no envelope is lost or duplicated. Every received description, candidate
\* or data envelope is in exactly one place, once: the inbound queue (or the
\* batch a replay in progress took from it), or the record of deliveries, and
\* there with the consumer of its kind.
C2_NoLossNoDuplication ==
    /\ \A i \in RoutedIds :
         Occurrences(sig.pendingInboundMessages, i) + InReplays(Len(stack), i)
             + Occurrences(sig.delivered, i) = 1
    /\ \A k \in 1..Len(sig.delivered) :
         /\ sig.delivered[k].id \in 1..Len(received)
         /\ sig.delivered[k].to = received[sig.delivered[k].id].type

\* A replay has delivered an envelope that was queued behind another, which is
\* itself delivered by now, and a third envelope is still queued.
C2_Witness ==
    /\ Quiescent
    /\ sig.pendingInboundMessages # <<>>
    /\ \E k, l \in 1..Len(sig.delivered) : k < l /\ sig.delivered[k].id > sig.delivered[l].id

DeliveredBefore(i, l) == \E k \in 1..(l - 1) : sig.delivered[k].id = i

PlaceIn(seq, i) ==
    IF \E k \in 1..Len(seq) : seq[k].id = i
    THEN CHOOSE k \in 1..Len(seq) : seq[k].id = i
    ELSE 0

\* The envelopes received while a replay in progress still held envelope i.
DuringReplayOf(i) == {r \in 1..Len(received) : i \in batchAt[r]}

\* C11: an envelope received re-entrantly while a replay holds a captured batch
\* is processed after every envelope of that batch: when it has been delivered
\* or queued, no envelope of the batch is still to be replayed, none is
\* delivered after it and none is queued behind it; and no envelope is lost or
\* duplicated.
C11_ReentrantAfterBatch ==
    /\ C2_NoLossNoDuplication
    /\ \A i \in RoutedIds : \A r \in DuringReplayOf(i) :
         /\ InReplays(Len(stack), i) = 0
         /\ PlaceIn(sig.delivered, r) > 0 /\ PlaceIn(sig.delivered, i) > 0
              => PlaceIn(sig.delivered, i) < PlaceIn(sig.delivered, r)
         /\ PlaceIn(sig.pendingInboundMessages, r) > 0
              /\ PlaceIn(sig.pendingInboundMessages, i) > 0
              => PlaceIn(sig.pendingInboundMessages, i) < PlaceIn(sig.pendingInboundMessages, r)

\* The envelope the step has received from outside, when it has received one.
Arrives == Len(received') = Len(received) + 1
Arrived == received'[Len(received')]
AsNullPayload(m) == [m EXCEPT !.value = IF @ = Absent THEN JsNull ELSE @]

\* No value of the instance stands for a missing 'value' field.
NoAbsentValue ==
    /\ \A k \in 1..Len(sig.pendingInboundMessages) :
         sig.pendingInboundMessages[k].value # Absent
    /\ \A k \in 1..Len(sig.futures) : sig.futures[k].value # Absent

RefusedOrNullPayload ==
    Arrives =>
      IF Arrived.type \notin Kinds
      THEN /\ asserts' = asserts + 1
           /\ sig' = sig
           /\ stack' = stack
           /\ descCalls' = descCalls
      ELSE /\ asserts' = asserts
           /\ sig' = ReceiveMessage(sig, AsNullPayload(Arrived))

\* C12: an envelope without type, or of a type that is none of the four
\* kinds, raises one assert_unreached and changes nothing of the instance: not
\* the queue, not the deliveries, not the description slot, not a future. An
\* envelope of a valid type without value is processed as the same envelope
\* with the value null.
C12_InvalidEnvelopeRefused == []NoAbsentValue /\ [][RefusedOrNullPayload]_vars

\* Two invalid envelopes were refused, a description envelope without value
\* was received, and a receiveRemoteDescription call waiting for it got null.
C12_Witness ==
    /\ asserts = 2
    /\ Len(received) = 3
    /\ received[3].type = "description"
    /\ received[3].value = Absent
    /\ received[1].type # received[2].type
    /\ sig.delivered # <<>>
    /\ Len(sig.futures) = 2
    /\ sig.futures[2] = [state |-> "fulfilled", value |-> JsNull, called |-> TRUE]

DoneIds == {i \in 1..Len(received) : received[i].type = "done"}
FirstDone == CHOOSE i \in DoneIds : \A j \in DoneIds : i <= j

\* C13: a done envelope is never in the inbound queue, nor in the batch of a
\* replay; the remote-done future is pending as long as no done envelope was
\* received and from the first one on it is fulfilled with that envelope's
\* payload (null without value), whatever handlers are registered, whether
\* _done was called, and whatever done envelopes follow.
C13_DoneSettlesAtOnce ==
    /\ \A k \in 1..Len(sig.pendingInboundMessages) :
         sig.pendingInboundMessages[k].type # "done"
    /\ \A n \in 1..Len(stack) : \A k \in 1..Len(stack[n].rest) :
         stack[n].rest[k].type # "done"
    /\ sig.remoteDoneFuture = 1
    /\ sig.futures[1] =
         IF DoneIds = {} THEN NewFuture
         ELSE [state |-> "fulfilled", value |-> WithValue(received[FirstDone]).value,
               called |-> TRUE]

\* Two done envelopes with different payloads were received, the first with
\* another result than the local one; _done was called and a handler is set.
C13_Witness ==
    /\ Cardinality(DoneIds) = 2
    /\ received[1].value # received[2].value
    /\ received[1].value # Absent
    /\ sig.doneSent
    /\ sig.remoteDataHandler # 0
    /\ sig.delivered[1].type = "done"
    /\ doneCalls[1].result # received[1].value

\* The kinds of the envelopes in the inbound queue.
QueuedTypes == {sig.pendingInboundMessages[k].type : k \in 1..Len(sig.pendingInboundMessages)}

\* C16: between top-level calls the inbound queue holds no envelope whose kind
\* has a ready consumer: no description while a receiveRemoteDescription
\* future is pending in the slot, no candidate once the candidate handler is
\* set, no data once the data handler is set.
C16_QueueHasNoReadyKind ==
    Quiescent =>
      /\ sig.remoteDescriptionFuture # 0 => "description" \notin QueuedTypes
      /\ sig.remoteCandidateHandler # 0 => "candidate" \notin QueuedTypes
      /\ sig.remoteDataHandler # 0 => "data" \notin QueuedTypes

\* The slot is pending and the candidate handler is set; data envelopes wait,
\* and a candidate that was queued with them has been delivered.
C16_Witness ==
    /\ Quiescent
    /\ sig.remoteDescriptionFuture # 0
    /\ sig.remoteCandidateHandler # 0
    /\ sig.remoteDataHandler = 0
    /\ Len(sig.pendingInboundMessages) = 2
    /\ \E k \in 1..Len(sig.delivered) :
         /\ sig.delivered[k].to = "candidate"
         /\ sig.delivered[k].id = 2

DoneSends == {k \in 1..Len(sent) : sent[k].type = "done"}

\* C4: however often _done is called, at most one done envelope is handed to
\* _sendMessage, it carries the first call's argument, and every call returns
\* the one remote-done future.
C4_DoneSentOnce ==
    /\ Cardinality(DoneSends) <= 1
    /\ doneCalls # <<>> =>
         /\ Cardinality(DoneSends) = 1
         /\ \A k \in DoneSends : sent[k].value = doneCalls[1].result
         /\ \A c \in 1..Len(doneCalls) : doneCalls[c].ret = sig.remoteDoneFuture

\* _done has been called twice, with two different results.
C4_Witness ==
    /\ Len(doneCalls) = 2
    /\ doneCalls[1].result # doneCalls[2].result

====
